---------------------------- MODULE Spec2Model ----------------------------
(***************************************************************************)
(* A model of the hawkeye logo scripts (generate_*.py,                     *)
(* .sisyphus/propagate_master_logo.py) and of the web-search wrapper       *)
(* (packages/core/scripts/web-search/inference.py).                        *)
(*                                                                         *)
(* The scripts are independent programs, so the module holds one           *)
(* specification per component:                                            *)
(*   SpecCrop       the crop-box computation of the five photo scripts     *)
(*   SpecExport     main() of the seven scripts that write files           *)
(*   SpecMask       create_gradient_mask of generate_variants.py           *)
(*   SpecComposite  the alpha_composite stack of the rim layers            *)
(*   SpecSearch     main() of the search wrapper                           *)
(*   SpecGlow       the eye-glow statements of the two glow editions       *)
(*   SpecProcess    the tone and composition statements of process_* and   *)
(*                  generate_variant, one statement per step               *)
(* Each specification moves its own variables and leaves the others idle.  *)
(***************************************************************************)
EXTENDS Integers, Sequences, FiniteSets

VARIABLES
    \* ---- Cropper
    edition,        \* which script's process_* function runs
    width, height,  \* img.size of the opened source
    crop_box,       \* the box handed to img.crop, NoBox before the crop
    crop_pc,        \* "loaded" | "cropped"
    \* ---- Exporter
    script,         \* which script's main() runs
    src_state,      \* the source file: "ok" | "missing" | "undecodable"
    phase,          \* "start" | "export" | "fallback" | "done" | "crashed"
    pc,             \* index of the next export statement of main()
    files,          \* files on disk: records [path, size, format]
    dirs,           \* directories created by os.makedirs
    attempted,      \* indices of the export statements that were started
    failed,         \* indices of the export statements whose write raised
    log,            \* lines printed to standard output
    exit_status,    \* process exit status, -1 while main() runs
    \* ---- Mask Synthesizer
    mask_w, mask_h, \* the arguments of create_gradient_mask
    mask_y,         \* the row the outer loop is about to fill
    mask_pixels,    \* the mask: pixel <<x, y>> -> 0..255
    \* ---- Layer Compositor
    comp_layers,    \* the layers to composite, bottom first, as one pixel each
    comp_canvas,    \* the same pixel of logo
    comp_k,         \* how many layers have been composited
    \* ---- Search wrapper
    args_max_results,   \* --max_results as parsed by argparse
    args_search_type,   \* --search_type: "general" | "news" | "images"
    max_results,        \* the local max_results of main(), 0 before it is set
    search_pc,          \* "parsed" | "client" | "search" | "format" |
                        \* "print" | "except" | "exit"
    sent_max_results,   \* the max_results given to client.search, 0 before
    stdout,             \* the JSON objects printed: "result" | "error"
    search_exit,        \* exit status, -1 while main() runs
    search_raised,      \* the statement of the try block that raised:
                        \* "none" | "client" | "search" | "format" | "dumps"
    \* ---- Glow stage (one row of pixels of the size x size images)
    glow_edition,       \* "soul_eye" | "bright"
    gray,               \* the row of the 'L' image gray
    glow_pc,            \* index of the next statement of the glow stage
    highlights,         \* the row of highlights / mask: its L band, or
                        \* the value of its equal R, G and B bands
    highlights_alpha,   \* its alpha band, <<>> while the image has mode 'L'
    glow_composite,     \* the row returned by Image.composite
    glow_out,           \* the row returned by Image.blend
    \* ---- process_* / generate_variant after the resize
    proc_edition,       \* which script's function runs
    proc_size,          \* its size argument
    proc_pc,            \* index of the next statement
    tone,               \* the tone statements run so far, in order
    img_mode,           \* mode of the image the tone statements work on
    bind,               \* Python name -> image object (0: not bound yet)
    content             \* image object -> what was painted on it, in order

crop_vars == <<edition, width, height, crop_box, crop_pc>>

export_vars == <<script, src_state, phase, pc, files, dirs, attempted,
                 failed, log, exit_status>>

mask_vars == <<mask_w, mask_h, mask_y, mask_pixels>>

comp_vars == <<comp_layers, comp_canvas, comp_k>>

search_vars == <<args_max_results, args_search_type, max_results, search_pc,
                 sent_max_results, stdout, search_exit, search_raised>>

glow_vars == <<glow_edition, gray, glow_pc, highlights, highlights_alpha,
               glow_composite, glow_out>>

proc_vars == <<proc_edition, proc_size, proc_pc, tone, img_mode, bind,
               content>>

vars == <<crop_vars, export_vars, mask_vars, comp_vars, search_vars,
          glow_vars, proc_vars>>

\* What the actions of one component leave alone.
not_crop == <<export_vars, mask_vars, comp_vars, search_vars, glow_vars,
              proc_vars>>
not_export == <<crop_vars, mask_vars, comp_vars, search_vars, glow_vars,
                proc_vars>>
not_mask == <<crop_vars, export_vars, comp_vars, search_vars, glow_vars,
              proc_vars>>
not_comp == <<crop_vars, export_vars, mask_vars, search_vars, glow_vars,
              proc_vars>>
not_search == <<crop_vars, export_vars, mask_vars, comp_vars, glow_vars,
                proc_vars>>
not_glow == <<crop_vars, export_vars, mask_vars, comp_vars, search_vars,
              proc_vars>>
not_proc == <<crop_vars, export_vars, mask_vars, comp_vars, search_vars,
              glow_vars>>

\* crop_box before img.crop has run.
NoBox == [left |-> 0, top |-> 0, size |-> 0, den |-> 0]

\* The idle state of a component whose specification is not the one running.
IdleCrop ==
    /\ edition = "clean"
    /\ width = 1
    /\ height = 1
    /\ crop_box = NoBox
    /\ crop_pc = "loaded"

IdleExport ==
    /\ script = "logo"
    /\ src_state = "ok"
    /\ phase = "start"
    /\ pc = 0
    /\ files = {}
    /\ dirs = {}
    /\ attempted = {}
    /\ failed = {}
    /\ log = <<>>
    /\ exit_status = -1

IdleMask ==
    /\ mask_w = 1
    /\ mask_h = 1
    /\ mask_y = 0
    /\ mask_pixels = [p \in {<<0, 0>>} |-> 0]

\* Image.new('RGBA', (size, size), (0, 0, 0, 0)), one pixel of it.
Transparent == [r |-> 0, g |-> 0, b |-> 0, a |-> 0]

IdleComp ==
    /\ comp_layers = <<Transparent, Transparent>>
    /\ comp_canvas = Transparent
    /\ comp_k = 0

IdleSearch ==
    /\ args_max_results = 5
    /\ args_search_type = "general"
    /\ max_results = 0
    /\ search_pc = "parsed"
    /\ sent_max_results = 0
    /\ stdout = <<>>
    /\ search_exit = -1
    /\ search_raised = "none"

IdleGlow ==
    /\ glow_edition = "soul_eye"
    /\ gray = <<>>
    /\ glow_pc = 1
    /\ highlights = <<>>
    /\ highlights_alpha = <<>>
    /\ glow_composite = <<>>
    /\ glow_out = <<>>

\* The names the five functions bind images and draw handles to.
Names ==
    { "logo", "mask", "mask_soft", "rim_layer", "rim_glow", "rim_sharp",
      "ring_layer", "halo_layer", "glow_layer", "draw", "bg_draw",
      "mask_draw", "rim_draw", "rim_sharp_draw", "ring_draw", "halo_draw",
      "glow_draw" }

IdleProc ==
    /\ proc_edition = "clean"
    /\ proc_size = 1024
    /\ proc_pc = 1
    /\ tone = <<>>
    /\ img_mode = "RGBA"
    /\ bind = [n \in Names |-> 0]
    /\ content = <<>>

(***************************************************************************)
(*                               CROPPER                                   *)
(***************************************************************************)

\* Largest small source side explored exhaustively.
MaxDim == 12

\* The sides of the 2000x1000 scenario source.
ScenarioDims == {1000, 2000}

Dims == (1..MaxDim) \cup ScenarioDims

CropScripts == {"clean", "bright", "soul_eye", "soul", "variant"}

MinDimAsMax(w, h) == IF w > h THEN w ELSE h

\* min(width, height)
min_dim(w, h) == IF w < h THEN w ELSE h

IntScaledRoundUp(n, num, den) == (n * num + den - 1) \div den

\* int(min_dim * num/den) for the non-negative products of the scripts:
\* int() truncates, and the float product of these literals truncates to
\* the exact floor for every min_dim up to 20000.
int_scaled(n, num, den) == (n * num) \div den

BottomRightNoPadding(w, h) ==
    LET crop_size == int_scaled(min_dim(w, h), 60, 100)
        left0     == w - crop_size
        top0      == h - crop_size
    IN  [left |-> IF left0 < 0 THEN 0 ELSE left0,
         top  |-> IF top0 < 0 THEN 0 ELSE top0,
         size |-> crop_size, den |-> 1]

BottomRightHalfPadding(w, h) ==
    LET crop_size == int_scaled(min_dim(w, h), 60, 100)
        padding   == int_scaled(min_dim(w, h), 50, 100)
        left0     == w - crop_size - padding
        top0      == h - crop_size - padding
    IN  [left |-> IF left0 < 0 THEN 0 ELSE left0,
         top  |-> IF top0 < 0 THEN 0 ELSE top0,
         size |-> crop_size, den |-> 1]

\* generate_clean_logo.py and generate_soul_bright_fixed_crop.py:
\* crop_size = int(min_dim*0.60), padding = int(min_dim*0.1),
\* left/top anchored to the bottom-right corner, negative origins set to 0.
\* left, top and size are integers (den = 1).
bottom_right_crop(w, h) ==
    LET crop_size == int_scaled(min_dim(w, h), 60, 100)
        padding   == int_scaled(min_dim(w, h), 10, 100)
        left0     == w - crop_size - padding
        top0      == h - crop_size - padding
    IN  [left |-> IF left0 < 0 THEN 0 ELSE left0,
         top  |-> IF top0 < 0 THEN 0 ELSE top0,
         size |-> crop_size, den |-> 1]

\* generate_soul_eye_logo.py: crop_size = int(min_dim*0.75),
\* left = (width - crop_size)/2, top = (height - crop_size)*0.3.
\* left and top are fractions, kept exactly in tenths (den = 10).
top_biased_crop(w, h) ==
    LET crop_size == int_scaled(min_dim(w, h), 75, 100)
    IN  [left |-> 5 * (w - crop_size), top |-> 3 * (h - crop_size),
         size |-> crop_size, den |-> 10]

\* generate_soul_logo.py: crop_dim = int(min_dim*0.8),
\* left = (width - crop_dim)/2, top = (height - crop_dim)/2, in halves.
center_crop(w, h) ==
    LET crop_dim == int_scaled(min_dim(w, h), 80, 100)
    IN  [left |-> w - crop_dim, top |-> h - crop_dim,
         size |-> crop_dim, den |-> 2]

\* generate_variants.py: the whole min_dim square, centred, in halves.
variant_crop(w, h) ==
    [left |-> w - min_dim(w, h), top |-> h - min_dim(w, h),
     size |-> min_dim(w, h), den |-> 2]

InitCrop ==
    /\ edition \in CropScripts
    /\ width \in Dims
    /\ height \in Dims
    /\ crop_box = NoBox
    /\ crop_pc = "loaded"

process_clean_logo_crop ==
    /\ edition = "clean"
    /\ crop_pc = "loaded"
    /\ crop_box' = bottom_right_crop(width, height)
    /\ crop_pc' = "cropped"
    /\ UNCHANGED <<edition, width, height>>
    /\ UNCHANGED not_crop

process_soul_bright_image_crop ==
    /\ edition = "bright"
    /\ crop_pc = "loaded"
    /\ crop_box' = bottom_right_crop(width, height)
    /\ crop_pc' = "cropped"
    /\ UNCHANGED <<edition, width, height>>
    /\ UNCHANGED not_crop

process_soul_eye_image_crop ==
    /\ edition = "soul_eye"
    /\ crop_pc = "loaded"
    /\ crop_box' = top_biased_crop(width, height)
    /\ crop_pc' = "cropped"
    /\ UNCHANGED <<edition, width, height>>
    /\ UNCHANGED not_crop

process_soul_image_crop ==
    /\ edition = "soul"
    /\ crop_pc = "loaded"
    /\ crop_box' = center_crop(width, height)
    /\ crop_pc' = "cropped"
    /\ UNCHANGED <<edition, width, height>>
    /\ UNCHANGED not_crop

generate_variant_crop ==
    /\ edition = "variant"
    /\ crop_pc = "loaded"
    /\ crop_box' = variant_crop(width, height)
    /\ crop_pc' = "cropped"
    /\ UNCHANGED <<edition, width, height>>
    /\ UNCHANGED not_crop

NextCrop ==
    \/ process_clean_logo_crop
    \/ process_soul_bright_image_crop
    \/ process_soul_eye_image_crop
    \/ process_soul_image_crop
    \/ generate_variant_crop

CropStart ==
    InitCrop /\ IdleExport /\ IdleMask /\ IdleComp /\ IdleSearch /\ IdleGlow
        /\ IdleProc

SpecCrop == CropStart /\ [][NextCrop]_vars

\* The crop anchors: BOTTOM_RIGHT (clean, bright), TOP_BIASED (soul_eye),
\* CENTER (soul, variant).
BottomRightScripts == {"clean", "bright"}

\* C1: after the crop of any script, on any source size, the crop box lies
\* inside the source: 0 <= left, 0 <= top, left+size <= width and
\* top+size <= height (origins compared in units of 1/den pixel).
C1_CropInsideSource ==
    crop_pc = "cropped" =>
        /\ crop_box.den > 0
        /\ crop_box.size >= 0
        /\ 0 <= crop_box.left
        /\ 0 <= crop_box.top
        /\ crop_box.left + crop_box.size * crop_box.den <= width * crop_box.den
        /\ crop_box.top + crop_box.size * crop_box.den <= height * crop_box.den

\* C1 witness: a non-square source cropped by the top-biased script with a
\* box that is strictly smaller than the source.
C1_Witness ==
    /\ crop_pc = "cropped"
    /\ edition = "soul_eye"
    /\ width > height
    /\ crop_box.size > 0
    /\ crop_box.top > 0

\* C7 (as stated): on the 2000x1000 source the bottom-right crop is
\* left = 600, top = 0, side 1200.
C7_ScenarioAsStated ==
    (crop_pc = "cropped" /\ edition \in BottomRightScripts
        /\ width = 2000 /\ height = 1000) =>
        (crop_box.den = 1 /\ crop_box.left = 600 /\ crop_box.top = 0
            /\ crop_box.size = 1200)

\* C7 (amended): on the 2000x1000 source the bottom-right crop is
\* left = 1300, top = 300, side 600, and no origin is clamped.
C7_ScenarioAmended ==
    (crop_pc = "cropped" /\ edition \in BottomRightScripts
        /\ width = 2000 /\ height = 1000) =>
        (crop_box.den = 1 /\ crop_box.left = 1300 /\ crop_box.top = 300
            /\ crop_box.size = 600)

\* C7 witness: the scenario source has been cropped by a bottom-right script.
C7_Witness ==
    /\ crop_pc = "cropped"
    /\ edition = "bright"
    /\ width = 2000
    /\ height = 1000
    /\ crop_box.size = 600

\* The bottom-right crop has run.
BottomRightCropped == crop_pc = "cropped" /\ edition \in BottomRightScripts

\* floor(0.60*min(width, height)) and floor(0.10*min(width, height)).
ZoomSize == (60 * min_dim(width, height)) \div 100

PadSize == (10 * min_dim(width, height)) \div 100

\* left and top as computed, before the "if left < 0" / "if top < 0" lines.
ComputedLeft == width - ZoomSize - PadSize

ComputedTop == height - ZoomSize - PadSize

\* C12: after a bottom-right crop the side is floor(0.60*min(width,height))
\* and, on each axis whose computed origin was not clamped, the box ends
\* the padding floor(0.10*min(width,height)) short of the source's edge:
\* left+size = width-pad and top+size = height-pad.
C12_CornerInsetByPadding ==
    BottomRightCropped =>
        /\ crop_box.den = 1
        /\ crop_box.size = ZoomSize
        /\ (ComputedLeft >= 0 =>
                crop_box.left + crop_box.size = width - PadSize)
        /\ (ComputedTop >= 0 =>
                crop_box.top + crop_box.size = height - PadSize)

\* C12 witness: a 12x10 source cropped by generate_clean_logo.py: side 6,
\* padding 1, the box ends at (11, 9).
C12_Witness ==
    /\ BottomRightCropped
    /\ edition = "clean"
    /\ width = 12
    /\ height = 10
    /\ PadSize = 1
    /\ crop_box.left + crop_box.size = 11
    /\ crop_box.top + crop_box.size = 9

\* C19: with zoom 0.60 and padding 0.10 the computed origin of the
\* bottom-right crop is strictly positive on both axes for every source of
\* at least 1x1, so neither clamp line changes it: the box handed to
\* img.crop has the computed origin.
C19_OriginStrictlyPositive ==
    BottomRightCropped =>
        /\ ComputedLeft > 0
        /\ ComputedTop > 0
        /\ crop_box.left = ComputedLeft
        /\ crop_box.top = ComputedTop

\* C19 witness: the smallest source, 1x1, cropped by
\* generate_soul_bright_fixed_crop.py: side 0, padding 0, origin (1, 1).
C19_Witness ==
    /\ BottomRightCropped
    /\ edition = "bright"
    /\ width = 1
    /\ height = 1
    /\ crop_box.left = 1
    /\ crop_box.top = 1

(***************************************************************************)
(*                          MULTI-TARGET EXPORTER                          *)
(***************************************************************************)

\* The four photo editions share one main(); propagate re-exports the saved
\* master logo; logo draws its master with generate_logo; variants saves
\* one file per colour variant into the working directory.
EditionScripts == {"clean", "soul", "soul_eye", "bright"}

ExportScripts == EditionScripts \cup {"propagate", "logo", "variants"}

SourceStates == {"ok", "missing", "undecodable"}

chrome_base == "hawkeye/packages/chrome-extension/public/icons"
vscode_base == "hawkeye/packages/vscode-extension/images"
desktop_base == "hawkeye/packages/desktop/resources"
web_base == "hawkiyi-web/public"
root_base == "hawkeye"

\* save_resized(img, path, size): the format follows the path's extension.
SR(dir, name, size, format) ==
    [op |-> "save_resized", dir |-> dir, name |-> name, size |-> size,
     format |-> format]

\* master.resize((32, 32)).save(path, format='ICO') inside try/except.
ICO(dir, name) ==
    [op |-> "save_ico", dir |-> dir, name |-> name, size |-> 32,
     format |-> "ICO"]

EditionMainNoTouchIcon ==
    << SR(chrome_base, "icon16.png", 16, "PNG"),
       SR(chrome_base, "icon48.png", 48, "PNG"),
       SR(chrome_base, "icon128.png", 128, "PNG"),
       SR(vscode_base, "icon.png", 128, "PNG"),
       SR(desktop_base, "icon.png", 512, "PNG"),
       SR(web_base, "logo.png", 512, "PNG"),
       SR(web_base, "favicon-16x16.png", 16, "PNG"),
       SR(web_base, "favicon-32x32.png", 32, "PNG"),
       ICO(web_base, "favicon.ico"),
       SR(root_base, "logo.png", 512, "PNG") >>

\* main() of generate_clean_logo.py, generate_soul_logo.py,
\* generate_soul_eye_logo.py and generate_soul_bright_fixed_crop.py.
EditionMain ==
    << SR(chrome_base, "icon16.png", 16, "PNG"),
       SR(chrome_base, "icon48.png", 48, "PNG"),
       SR(chrome_base, "icon128.png", 128, "PNG"),
       SR(vscode_base, "icon.png", 128, "PNG"),
       SR(desktop_base, "icon.png", 512, "PNG"),
       SR(web_base, "logo.png", 512, "PNG"),
       SR(web_base, "favicon-16x16.png", 16, "PNG"),
       SR(web_base, "favicon-32x32.png", 32, "PNG"),
       SR(web_base, "apple-touch-icon.png", 180, "PNG"),
       ICO(web_base, "favicon.ico"),
       SR(root_base, "logo.png", 512, "PNG") >>

\* main() of .sisyphus/propagate_master_logo.py.
PropagateMain ==
    << SR(chrome_base, "icon16.png", 16, "PNG"),
       SR(chrome_base, "icon48.png", 48, "PNG"),
       SR(chrome_base, "icon128.png", 128, "PNG"),
       SR(vscode_base, "icon.png", 128, "PNG"),
       SR(desktop_base, "icon.png", 512, "PNG"),
       SR(web_base, "logo.png", 512, "PNG"),
       SR(web_base, "favicon-16x16.png", 16, "PNG"),
       SR(web_base, "favicon-32x32.png", 32, "PNG"),
       SR(web_base, "apple-touch-icon.png", 180, "PNG"),
       ICO(web_base, "favicon.ico") >>

\* main() of generate_logo.py: favicon.ico is written by save_resized and
\* then again by the try block.
LogoMain ==
    << SR(chrome_base, "icon16.png", 16, "PNG"),
       SR(chrome_base, "icon48.png", 48, "PNG"),
       SR(chrome_base, "icon128.png", 128, "PNG"),
       SR(vscode_base, "icon.png", 128, "PNG"),
       SR(desktop_base, "icon.png", 512, "PNG"),
       SR(web_base, "logo.png", 512, "PNG"),
       SR(web_base, "favicon.ico", 32, "ICO"),
       ICO(web_base, "favicon.ico") >>

\* generate_variant(...): logo.save("logo_variant_<color_name>.png") at the
\* default size of 512, without makedirs.
GV(color_name_file) ==
    [op |-> "generate_variant", dir |-> ".", name |-> color_name_file,
     size |-> 512, format |-> "PNG"]

\* main() of generate_variants.py.
VariantsMain ==
    << GV("logo_variant_purple.png"),
       GV("logo_variant_red.png"),
       GV("logo_variant_gold.png"),
       GV("logo_variant_teal.png") >>

\* The except branch of generate_logo.py's ICO try block.
LogoFallback == SR(web_base, "favicon.png", 32, "PNG")

Main(s) ==
    IF s \in EditionScripts THEN EditionMain
    ELSE IF s = "propagate" THEN PropagateMain
    ELSE IF s = "variants" THEN VariantsMain
    ELSE LogoMain

\* The index the fallback write is recorded under in attempted and failed.
FallbackIndex(s) == Len(Main(s)) + 1

\* save_resized of propagate_master_logo.py wraps its body in try/except;
\* the save_resized of the other scripts lets the exception escape.
SaveResizedCatches(s) == s = "propagate"

FileOf(stmt) ==
    [dir |-> stmt.dir, name |-> stmt.name, size |-> stmt.size,
     format |-> stmt.format]

\* Writing a path replaces whatever file was there.
Written(fs, stmt) ==
    {f \in fs : ~(f.dir = stmt.dir /\ f.name = stmt.name)} \cup {FileOf(stmt)}

Line(kind, stmt) == [kind |-> kind, dir |-> stmt.dir, name |-> stmt.name]

Note(kind) == [kind |-> kind, dir |-> "", name |-> ""]

InitExport ==
    /\ script \in ExportScripts
    /\ src_state \in SourceStates
    /\ (script = "logo" => src_state = "ok")
    /\ phase = "start"
    /\ pc = 0
    /\ files = {}
    /\ dirs = {}
    /\ attempted = {}
    /\ failed = {}
    /\ log = <<>>
    /\ exit_status = -1

EditionMainDoneOutsideIf ==
    /\ script \in EditionScripts
    /\ phase = "start"
    /\ IF src_state = "ok"
       THEN /\ log' = Append(log, Note("generating"))
            /\ phase' = "export"
            /\ pc' = 1
            /\ exit_status' = exit_status
       ELSE /\ log' = log \o << Note("generating"), Note("error_opening"),
                                Note("done") >>
            /\ phase' = "done"
            /\ pc' = pc
            /\ exit_status' = 0
    /\ UNCHANGED <<script, src_state, files, dirs, attempted, failed>>
    /\ UNCHANGED not_export

\* main() up to the first export statement of the four photo editions:
\* print the banner, call process_*; a source that does not open prints
\* "Error opening image", process_* returns None and main() falls through.
edition_main_open ==
    /\ script \in EditionScripts
    /\ phase = "start"
    /\ IF src_state = "ok"
       THEN /\ log' = Append(log, Note("generating"))
            /\ phase' = "export"
            /\ pc' = 1
            /\ exit_status' = exit_status
       ELSE /\ log' = log \o << Note("generating"), Note("error_opening") >>
            /\ phase' = "done"
            /\ pc' = pc
            /\ exit_status' = 0
    /\ UNCHANGED <<script, src_state, files, dirs, attempted, failed>>
    /\ UNCHANGED not_export

\* propagate_master_logo.py main() up to the first export statement.
propagate_main_open ==
    /\ script = "propagate"
    /\ phase = "start"
    /\ IF src_state = "ok"
       THEN /\ log' = Append(log, Note("loaded"))
            /\ phase' = "export"
            /\ pc' = 1
            /\ exit_status' = exit_status
       ELSE /\ log' = Append(log, IF src_state = "missing"
                                  THEN Note("not_found")
                                  ELSE Note("failed_to_open"))
            /\ phase' = "done"
            /\ pc' = pc
            /\ exit_status' = 0
    /\ UNCHANGED <<script, src_state, files, dirs, attempted, failed>>
    /\ UNCHANGED not_export

\* generate_logo.py main(): the master is drawn, nothing is opened.
logo_main_generate ==
    /\ script = "logo"
    /\ phase = "start"
    /\ phase' = "export"
    /\ pc' = 1
    /\ UNCHANGED <<script, src_state, files, dirs, attempted, failed, log,
                   exit_status>>
    /\ UNCHANGED not_export

\* generate_variants.py main(): nothing is opened before the first call.
variants_main ==
    /\ script = "variants"
    /\ phase = "start"
    /\ phase' = "export"
    /\ pc' = 1
    /\ UNCHANGED <<script, src_state, files, dirs, attempted, failed, log,
                   exit_status>>
    /\ UNCHANGED not_export

\* One generate_variant call: a source that does not open makes it return
\* without a word ("except: return"); otherwise the variant is saved and
\* reported, and a failing logo.save escapes main() as a traceback.
generate_variant ==
    /\ phase = "export"
    /\ pc \in 1..Len(Main(script))
    /\ Main(script)[pc].op = "generate_variant"
    /\ IF src_state # "ok"
       THEN /\ pc' = pc + 1
            /\ UNCHANGED <<phase, files, attempted, failed, log, exit_status>>
       ELSE /\ attempted' = attempted \cup {pc}
            /\ \E outcome \in {"ok", "save_raises"} :
                  IF outcome = "ok"
                  THEN /\ files' = Written(files, Main(script)[pc])
                       /\ log' = Append(log, Line("saved", Main(script)[pc]))
                       /\ pc' = pc + 1
                       /\ UNCHANGED <<phase, failed, exit_status>>
                  ELSE /\ failed' = failed \cup {pc}
                       /\ phase' = "crashed"
                       /\ exit_status' = 1
                       /\ UNCHANGED <<pc, files, log>>
    /\ UNCHANGED <<script, src_state, dirs>>
    /\ UNCHANGED not_export

WriteOutcomes == {"ok", "makedirs_raises", "save_raises"}

\* One save_resized call: makedirs, resize, save, print.  An exception is
\* caught and printed by propagate, and ends the run with a traceback and
\* exit status 1 in every other script.
SaveResizedStep(stmt, index, outcome, next_phase, next_pc) ==
    /\ attempted' = attempted \cup {index}
    /\ dirs' = IF outcome = "makedirs_raises" THEN dirs
               ELSE dirs \cup {stmt.dir}
    /\ IF outcome = "ok"
       THEN /\ files' = Written(files, stmt)
            /\ log' = Append(log, Line("saved", stmt))
            /\ failed' = failed
            /\ phase' = next_phase
            /\ pc' = next_pc
            /\ exit_status' = exit_status
       ELSE /\ files' = files
            /\ failed' = failed \cup {index}
            /\ IF SaveResizedCatches(script)
               THEN /\ log' = Append(log, Line("error", stmt))
                    /\ phase' = next_phase
                    /\ pc' = next_pc
                    /\ exit_status' = exit_status
               ELSE /\ log' = log
                    /\ phase' = "crashed"
                    /\ pc' = pc
                    /\ exit_status' = 1
    /\ UNCHANGED <<script, src_state>>

save_resized ==
    /\ phase = "export"
    /\ pc \in 1..Len(Main(script))
    /\ Main(script)[pc].op = "save_resized"
    /\ \E outcome \in WriteOutcomes :
          SaveResizedStep(Main(script)[pc], pc, outcome, "export", pc + 1)
    /\ UNCHANGED not_export

\* What the ICO try block prints: propagate and logo report both outcomes,
\* the photo editions print nothing ("except: pass").
IcoLog(s, kind, stmt) ==
    IF s \in EditionScripts THEN <<>> ELSE << Line(kind, stmt) >>

\* The try block around the direct ICO save.  No makedirs here.
save_ico ==
    /\ phase = "export"
    /\ pc \in 1..Len(Main(script))
    /\ Main(script)[pc].op = "save_ico"
    /\ attempted' = attempted \cup {pc}
    /\ \E outcome \in {"ok", "save_raises"} :
          IF outcome = "ok"
          THEN /\ files' = Written(files, Main(script)[pc])
               /\ log' = log \o IcoLog(script, "saved", Main(script)[pc])
               /\ failed' = failed
               /\ phase' = "export"
               /\ pc' = pc + 1
          ELSE /\ files' = files
               /\ log' = log \o IcoLog(script, "error", Main(script)[pc])
               /\ failed' = failed \cup {pc}
               /\ phase' = IF script = "logo" THEN "fallback" ELSE "export"
               /\ pc' = pc + 1
    /\ UNCHANGED <<script, src_state, dirs, exit_status>>
    /\ UNCHANGED not_export

\* generate_logo.py's except branch: save_resized(favicon.png, 32).
save_ico_fallback ==
    /\ phase = "fallback"
    /\ \E outcome \in WriteOutcomes :
          SaveResizedStep(LogoFallback, FallbackIndex(script), outcome,
                          "export", pc)
    /\ UNCHANGED not_export

\* The end of main(): the closing message (none in generate_logo.py and
\* generate_variants.py) and a normal return.
main_done ==
    /\ phase = "export"
    /\ pc = Len(Main(script)) + 1
    /\ log' = IF script \in {"logo", "variants"} THEN log
              ELSE Append(log, Note("done"))
    /\ phase' = "done"
    /\ exit_status' = 0
    /\ UNCHANGED <<script, src_state, pc, files, dirs, attempted, failed>>
    /\ UNCHANGED not_export

NextExport ==
    \/ edition_main_open
    \/ propagate_main_open
    \/ logo_main_generate
    \/ variants_main
    \/ generate_variant
    \/ save_resized
    \/ save_ico
    \/ save_ico_fallback
    \/ main_done

ExportStart ==
    InitExport /\ IdleCrop /\ IdleMask /\ IdleComp /\ IdleSearch /\ IdleGlow
        /\ IdleProc

SpecExport == ExportStart /\ [][NextExport]_vars

Terminated == phase \in {"done", "crashed"}

\* The scripts whose main() is the multi-target export block: each of them
\* has the ICO try block, at this index.
IcoScripts == EditionScripts \cup {"propagate", "logo"}

IcoIndex(s) == CHOOSE i \in 1..Len(Main(s)) : Main(s)[i].op = "save_ico"

\* The number of distinct destination paths of a script's main().
TargetCount(s) ==
    Cardinality({ <<Main(s)[i].dir, Main(s)[i].name>> : i \in 1..Len(Main(s)) })

\* C2 (as stated): when the run has ended, every export statement that
\* follows a failed one has been attempted.
C2_FailureDoesNotAbort ==
    Terminated =>
        \A i \in failed : \A j \in (i + 1)..Len(Main(script)) : j \in attempted

\* C3 (as stated): a run with a loadable source ends with exactly N files
\* when no write failed and N-k files when k writes failed.
C3_FilesAreTargetsMinusFailures ==
    (Terminated /\ src_state = "ok") =>
        Cardinality(files) = TargetCount(script) - Cardinality(failed)

\* C4 (as stated): when the ICO save is the only write that failed, the run
\* ends with a 32-pixel PNG written in its place and with every later
\* export statement attempted.
C4_IcoFailureFallsBackToPng ==
    (Terminated /\ script \in IcoScripts /\ failed = {IcoIndex(script)}) =>
        /\ FileOf(LogoFallback) \in files
        /\ \A j \in (IcoIndex(script) + 1)..Len(Main(script)) : j \in attempted

\* C5 (as stated): a finished run has a non-zero exit status exactly when
\* the source could not be read or decoded.
C5_NonZeroExitIffSourceUnreadable ==
    Terminated => ((exit_status # 0) <=> (src_state # "ok"))

\* The static manifest: browser-extension icons 16/48/128, editor-extension
\* icon 128, desktop icon 512, web logo 512, favicons 16/32, touch icon 180
\* and the 32-pixel icon-format favicon.
StaticManifest ==
    { [dir |-> chrome_base, name |-> "icon16.png", size |-> 16, format |-> "PNG"],
      [dir |-> chrome_base, name |-> "icon48.png", size |-> 48, format |-> "PNG"],
      [dir |-> chrome_base, name |-> "icon128.png", size |-> 128, format |-> "PNG"],
      [dir |-> vscode_base, name |-> "icon.png", size |-> 128, format |-> "PNG"],
      [dir |-> desktop_base, name |-> "icon.png", size |-> 512, format |-> "PNG"],
      [dir |-> web_base, name |-> "logo.png", size |-> 512, format |-> "PNG"],
      [dir |-> web_base, name |-> "favicon-16x16.png", size |-> 16, format |-> "PNG"],
      [dir |-> web_base, name |-> "favicon-32x32.png", size |-> 32, format |-> "PNG"],
      [dir |-> web_base, name |-> "apple-touch-icon.png", size |-> 180, format |-> "PNG"],
      [dir |-> web_base, name |-> "favicon.ico", size |-> 32, format |-> "ICO"] }

\* The targets generate_logo.py leaves out: the PNG favicons and the touch icon.
NotInLogoScript ==
    { f \in StaticManifest :
        f.name \in {"favicon-16x16.png", "favicon-32x32.png",
                    "apple-touch-icon.png"} }

CleanRun == phase = "done" /\ src_state = "ok" /\ failed = {}

StmtAt(i) == IF i = FallbackIndex(script) THEN LogoFallback
             ELSE Main(script)[i]

SamePath(a, b) == a.dir = b.dir /\ a.name = b.name

\* The status lines printed about the path of a statement.
LinesAbout(stmt) == { k \in 1..Len(log) : SamePath(log[k], stmt) }

\* C17 (as stated): when the run has ended, every attempted export
\* statement, the icon-format one included, has exactly one status line
\* about its path (one per attempt when a path is written twice), and the
\* line of a failed statement reports the failure.
C17_OneStatusLinePerTarget ==
    Terminated =>
        \A i \in attempted :
            /\ Cardinality(LinesAbout(StmtAt(i))) =
                  Cardinality({ j \in attempted :
                                  SamePath(StmtAt(j), StmtAt(i)) })
            /\ (i \in failed =>
                    \E k \in LinesAbout(StmtAt(i)) : log[k].kind = "error")

\* The completion message has been printed.
CompletionPrinted == \E k \in 1..Len(log) : log[k] = Note("done")

\* C18: in a run whose source cannot be opened or decoded no directory is
\* created, no file is written and the completion message is not printed,
\* at any point of the run.
C18_UnreadableSourceWritesNothing ==
    src_state # "ok" =>
        /\ dirs = {}
        /\ files = {}
        /\ attempted = {}
        /\ ~CompletionPrinted

\* C18 witness: generate_soul_logo.py has ended on an undecodable source
\* with its banner and the error line as its only output.
C18_Witness ==
    /\ Terminated
    /\ script = "soul"
    /\ src_state = "undecodable"
    /\ log = << Note("generating"), Note("error_opening") >>
    /\ files = {}

(***************************************************************************)
(*                   MASK SYNTHESIZER: RADIAL GRADIENT                     *)
(***************************************************************************)

\* Largest mask side explored.
MaxMask == 8

Pixels(w, h) == (0..(w - 1)) \X (0..(h - 1))

\* Distances are kept squared and doubled so that they stay integers:
\* center = (w/2, h/2), so 2*dx = 2x - w, 2*dy = 2y - h and
\* dist4 = (2*dist)^2; radius2 = 2*max_radius = min(w, h).
dist4(w, h, x, y) == (2 * x - w) * (2 * x - w) + (2 * y - h) * (2 * y - h)

radius2(w, h) == IF w < h THEN w ELSE h

\* The least n with n >= 850 * dist / max_radius.
CeilFalloff(d4, r2) ==
    CHOOSE n \in 0..850 :
        /\ n * n * r2 * r2 >= 722500 * d4
        /\ (n = 0 \/ (n - 1) * (n - 1) * r2 * r2 < 722500 * d4)

GradientValueRising(d4, r2) ==
    IF 100 * d4 < 49 * r2 * r2 THEN 255
    ELSE IF d4 > r2 * r2 THEN 0
    ELSE 255 - (850 - CeilFalloff(d4, r2))

\* The value create_gradient_mask stores in one pixel:
\*   dist < max_radius*0.7  -> 255
\*   dist > max_radius      -> 0
\*   otherwise int(255 * (1 - (dist - 0.7*max_radius)/(0.3*max_radius))),
\*   which is floor(850 - 850*dist/max_radius) = 850 - ceil(850*dist/max_radius).
\* The exact value equals the float one for every mask side up to 16.
gradient_value(d4, r2) ==
    IF 100 * d4 < 49 * r2 * r2 THEN 255
    ELSE IF d4 > r2 * r2 THEN 0
    ELSE 850 - CeilFalloff(d4, r2)

\* Image.new('L', (w, h), 0)
InitMask ==
    /\ mask_w \in 1..MaxMask
    /\ mask_h \in 1..MaxMask
    /\ mask_y = 0
    /\ mask_pixels = [p \in Pixels(mask_w, mask_h) |-> 0]

\* One pass of "for y in range(h)": the inner loop fills row y.
create_gradient_mask_row ==
    /\ mask_y < mask_h
    /\ mask_pixels' =
          [p \in Pixels(mask_w, mask_h) |->
              IF p[2] = mask_y
              THEN gradient_value(dist4(mask_w, mask_h, p[1], p[2]),
                                  radius2(mask_w, mask_h))
              ELSE mask_pixels[p]]
    /\ mask_y' = mask_y + 1
    /\ UNCHANGED <<mask_w, mask_h>>
    /\ UNCHANGED not_mask

NextMask == create_gradient_mask_row

MaskStart ==
    InitMask /\ IdleCrop /\ IdleExport /\ IdleComp /\ IdleSearch /\ IdleGlow
        /\ IdleProc

SpecMask == MaskStart /\ [][NextMask]_vars

MaskReturned == mask_y = mask_h

\* C8: in the returned mask every value is in 0..255, it is 255 wherever
\* dist <= 0.7*max_radius and 0 wherever dist > max_radius, and a pixel
\* that is no farther from the center than another has no smaller value.
C8_RadialMaskMonotone ==
    MaskReturned =>
        LET r2 == radius2(mask_w, mask_h)
            d(p) == dist4(mask_w, mask_h, p[1], p[2])
            P == Pixels(mask_w, mask_h)
        IN  /\ \A p \in P : mask_pixels[p] \in 0..255
            /\ \A p \in P : 100 * d(p) <= 49 * r2 * r2 => mask_pixels[p] = 255
            /\ \A p \in P : d(p) > r2 * r2 => mask_pixels[p] = 0
            /\ \A p, q \in P : d(p) <= d(q) => mask_pixels[p] >= mask_pixels[q]

\* C8 witness: a returned mask with a full-value core, a falloff pixel
\* strictly between 0 and 255 and a zero pixel beyond the radius.
C8_Witness ==
    /\ MaskReturned
    /\ \E p \in Pixels(mask_w, mask_h) : mask_pixels[p] = 255
    /\ \E p \in Pixels(mask_w, mask_h) :
          mask_pixels[p] > 0 /\ mask_pixels[p] < 255
    /\ \E p \in Pixels(mask_w, mask_h) :
          /\ dist4(mask_w, mask_h, p[1], p[2])
                > radius2(mask_w, mask_h) * radius2(mask_w, mask_h)
          /\ mask_pixels[p] = 0

(***************************************************************************)
(*                           LAYER COMPOSITOR                              *)
(***************************************************************************)

\* Compositing works pixel by pixel, so a layer is modelled by one pixel.
\* The rim colours of the scripts, at the alpha values of a transparent
\* pixel, of the two translucent outlines and of the opaque sharp rim.
RimColours == { <<255, 255, 255>>, <<100, 200, 255>>, <<200, 230, 255>> }

AlphaLevels == {0, 150, 200, 255}

LayerPixels ==
    { [r |-> c[1], g |-> c[2], b |-> c[3], a |-> alpha] :
        c \in RimColours, alpha \in AlphaLevels }

\* x / d rounded to the nearest integer, for x >= 0.
RoundDiv(x, d) == (2 * x + d) \div (2 * d)

\* The "over" operator on 8-bit straight-alpha pixels:
\*   out.a   = src.a + dst.a*(1 - src.a)
\*   out.rgb = src.rgb*src.a + dst.rgb*dst.a*(1 - src.a)
\* with alpha normalised to [0,1] for the computation.  Pixels are stored
\* with straight alpha, so the colour sum is divided by out.a before it is
\* written back as an integer in 0..255; a fully transparent src leaves
\* dst as it is.
Over(src, dst) ==
    LET blend == dst.a * (255 - src.a)
        outa255 == src.a * 255 + blend
        chan(sc, dc) == RoundDiv(sc * src.a * 255 + dc * blend, outa255)
    IN  IF src.a = 0 THEN dst
        ELSE [r |-> chan(src.r, dst.r),
              g |-> chan(src.g, dst.g),
              b |-> chan(src.b, dst.b),
              a |-> RoundDiv(outa255, 255)]

CompositeArgumentsSwapped(logo, layer) == Over(logo, layer)

\* logo = Image.alpha_composite(logo, layer): the layer goes over the logo.
alpha_composite(logo, layer) == Over(layer, logo)

\* The canvas after the layers of a stack were composited bottom first.
RECURSIVE CompositeStack(_)
CompositeStack(layers) ==
    IF layers = <<>> THEN Transparent
    ELSE alpha_composite(CompositeStack(SubSeq(layers, 1, Len(layers) - 1)),
                         layers[Len(layers)])

InitComp ==
    /\ comp_layers \in LayerPixels \X LayerPixels
    /\ comp_canvas = Transparent
    /\ comp_k = 0

\* logo = Image.alpha_composite(logo, rim_glow), then (logo, rim_layer).
composite_next_layer ==
    /\ comp_k < Len(comp_layers)
    /\ comp_canvas' = alpha_composite(comp_canvas, comp_layers[comp_k + 1])
    /\ comp_k' = comp_k + 1
    /\ UNCHANGED comp_layers
    /\ UNCHANGED not_comp

NextComp == composite_next_layer

CompStart ==
    InitComp /\ IdleCrop /\ IdleExport /\ IdleMask /\ IdleSearch /\ IdleGlow
        /\ IdleProc

SpecComposite == CompStart /\ [][NextComp]_vars

Reversed(layers) == << layers[2], layers[1] >>

BinaryAlpha(px) == px.a \in {0, 255}

PartialAlpha(px) == px.a > 0 /\ px.a < 255

\* The constructed test case: the white outline at alpha 200 and the blue
\* outline at alpha 150.
TestLayerA == [r |-> 255, g |-> 255, b |-> 255, a |-> 200]

TestLayerB == [r |-> 100, g |-> 200, b |-> 255, a |-> 150]

\* C9: compositing the two translucent test layers A then B gives a pixel
\* different from compositing B then A; and when both layers are fully
\* opaque or fully transparent, the result is the upper layer's pixel if it
\* is opaque, else the lower layer's pixel if that is opaque, else the
\* transparent canvas.
C9_OverIsOrderSensitive ==
    comp_k = 2 =>
        /\ (comp_layers = <<TestLayerA, TestLayerB>> =>
                comp_canvas # CompositeStack(Reversed(comp_layers)))
        /\ ((BinaryAlpha(comp_layers[1]) /\ BinaryAlpha(comp_layers[2])) =>
                comp_canvas =
                    IF comp_layers[2].a = 255 THEN comp_layers[2]
                    ELSE IF comp_layers[1].a = 255 THEN comp_layers[1]
                    ELSE Transparent)

\* C9 witness: two layers of partial alpha have been composited and the
\* other order would have given another pixel.
C9_Witness ==
    /\ comp_k = 2
    /\ PartialAlpha(comp_layers[1])
    /\ PartialAlpha(comp_layers[2])
    /\ comp_canvas # CompositeStack(Reversed(comp_layers))

(***************************************************************************)
(*                            SEARCH WRAPPER                               *)
(***************************************************************************)

\* --max_results is explored from -MaxArg to 10 + MaxArg.
MaxArg == 3

SearchTypes == {"general", "news", "images"}

ClampUpperOnly(value) == IF value > 10 THEN 10 ELSE value

\* max(1, min(10, args.max_results))
clamp_max_results(value) ==
    LET upper == IF value < 10 THEN value ELSE 10
    IN  IF upper > 1 THEN upper ELSE 1

\* The state after parser.parse_args() has accepted the command line.
InitSearch ==
    /\ args_max_results \in (0 - MaxArg)..(10 + MaxArg)
    /\ args_search_type \in SearchTypes
    /\ max_results = 0
    /\ search_pc = "parsed"
    /\ sent_max_results = 0
    /\ stdout = <<>>
    /\ search_exit = -1
    /\ search_raised = "none"

\* max_results = max(1, min(10, args.max_results)); result = {...}
main_clamp ==
    /\ search_pc = "parsed"
    /\ max_results' = clamp_max_results(args_max_results)
    /\ search_pc' = "client"
    /\ UNCHANGED <<args_max_results, args_search_type, sent_max_results,
                   stdout, search_exit, search_raised>>
    /\ UNCHANGED not_search

\* client = TavilyClient(api_key=...), inside the try block.
create_client ==
    /\ search_pc = "client"
    /\ \E raises \in BOOLEAN :
          /\ search_pc' = IF raises THEN "except" ELSE "search"
          /\ search_raised' = IF raises THEN "client" ELSE search_raised
    /\ UNCHANGED <<args_max_results, args_search_type, max_results,
                   sent_max_results, stdout, search_exit>>
    /\ UNCHANGED not_search

\* search_general / search_news / search_images: each hands its
\* max_results argument to client.search and re-raises a failure.
SearchCall(type) ==
    /\ search_pc = "search"
    /\ args_search_type = type
    /\ sent_max_results' = max_results
    /\ \E raises \in BOOLEAN :
          /\ search_pc' = IF raises THEN "except" ELSE "format"
          /\ search_raised' = IF raises THEN "search" ELSE search_raised
    /\ UNCHANGED <<args_max_results, args_search_type, max_results, stdout,
                   search_exit>>
    /\ UNCHANGED not_search

search_general == SearchCall("general")

search_news == SearchCall("news")

search_images == SearchCall("images")

\* response.get(...), format_results(...) or the images loop; a response
\* of an unexpected shape raises inside the try block.
format_results ==
    /\ search_pc = "format"
    /\ \E raises \in BOOLEAN :
          /\ search_pc' = IF raises THEN "except" ELSE "print"
          /\ search_raised' = IF raises THEN "format" ELSE search_raised
    /\ UNCHANGED <<args_max_results, args_search_type, max_results,
                   sent_max_results, stdout, search_exit>>
    /\ UNCHANGED not_search

\* print(json.dumps(result)) and the normal return of main().  The
\* argument json.dumps(result) is evaluated before print writes anything,
\* so a result that does not serialise raises with nothing printed.
print_result ==
    /\ search_pc = "print"
    /\ \E raises \in BOOLEAN :
          IF raises
          THEN /\ search_pc' = "except"
               /\ search_raised' = "dumps"
               /\ UNCHANGED <<stdout, search_exit>>
          ELSE /\ stdout' = Append(stdout, "result")
               /\ search_pc' = "exit"
               /\ search_exit' = 0
               /\ UNCHANGED search_raised
    /\ UNCHANGED <<args_max_results, args_search_type, max_results,
                   sent_max_results>>
    /\ UNCHANGED not_search

MainExceptWithoutExit ==
    /\ search_pc = "except"
    /\ stdout' = Append(stdout, "error")
    /\ search_pc' = "exit"
    /\ search_exit' = 0
    /\ UNCHANGED <<args_max_results, args_search_type, max_results,
                   sent_max_results, search_raised>>
    /\ UNCHANGED not_search

\* except Exception: print the error object, sys.exit(1).
main_except ==
    /\ search_pc = "except"
    /\ stdout' = Append(stdout, "error")
    /\ search_pc' = "exit"
    /\ search_exit' = 1
    /\ UNCHANGED <<args_max_results, args_search_type, max_results,
                   sent_max_results, search_raised>>
    /\ UNCHANGED not_search

NextSearch ==
    \/ main_clamp
    \/ create_client
    \/ search_general
    \/ search_news
    \/ search_images
    \/ format_results
    \/ print_result
    \/ main_except

SearchStart ==
    InitSearch /\ IdleCrop /\ IdleExport /\ IdleMask /\ IdleComp /\ IdleGlow
        /\ IdleProc

SpecSearch == SearchStart /\ [][NextSearch]_vars

\* client.search has been called.
SearchSent == search_pc \in {"format", "print"} \/ sent_max_results # 0

\* C10: whenever client.search has been called, the max_results it was
\* given lies in 1..10: it is --max_results itself inside 1..10, 1 for
\* every smaller value and 10 for every larger one.
C10_BoundClamped ==
    SearchSent =>
        /\ sent_max_results \in 1..10
        /\ (args_max_results \in 1..10 => sent_max_results = args_max_results)
        /\ (args_max_results < 1 => sent_max_results = 1)
        /\ (args_max_results > 10 => sent_max_results = 10)

\* C10 witness: a negative --max_results reached an images search as 1.
C10_Witness ==
    /\ search_pc = "format"
    /\ args_search_type = "images"
    /\ args_max_results < 0
    /\ sent_max_results = 1

\* C11: a run that got past argument parsing prints nothing while main()
\* runs and has printed exactly one JSON object when it ends: the result
\* object with exit status 0 when nothing raised, the error object with a
\* non-zero exit status when client creation, the search call or any later
\* statement of the try block raised; never both objects.
C11_ExactlyOneJsonObject ==
    /\ (search_pc # "exit" => stdout = <<>>)
    /\ (search_pc = "exit" =>
            /\ Len(stdout) = 1
            /\ (search_raised = "none" =>
                    (stdout = << "result" >> /\ search_exit = 0))
            /\ (search_raised # "none" =>
                    (stdout = << "error" >> /\ search_exit # 0)))

\* C11 witness: the search call raised and the run ended with the error
\* object alone and exit status 1.
C11_Witness ==
    /\ search_pc = "exit"
    /\ search_raised = "search"
    /\ stdout = << "error" >>
    /\ search_exit = 1

(***************************************************************************)
(*                              GLOW STAGE                                 *)
(***************************************************************************)

\* The glow statements work pixel by pixel except for the blur, which mixes
\* neighbours; the model follows one row of GlowLen pixels.
GlowLen == 3

Row == 1..GlowLen

\* Luminances around the two thresholds.
GlowLevels == {0, 200, 201, 210, 211, 255}

\* generate_soul_eye_logo.py and generate_soul_bright_fixed_crop.py.
GlowEditions == {"soul_eye", "bright"}

\* threshold = 200 / threshold = 210
threshold(e) == IF e = "soul_eye" THEN 200 ELSE 210

\* cyan_layer = (0, 255, 255, 0) / light_layer = (150, 200, 255, 0)
tint(e) == IF e = "soul_eye" THEN <<0, 255, 255>> ELSE <<150, 200, 255>>

\* Image.blend(..., alpha=0.3) / alpha=0.5, in tenths.
blend_tenths(e) == IF e = "soul_eye" THEN 3 ELSE 5

ramp_black(e) == IF e = "soul_eye" THEN <<10, 5, 25>> ELSE <<30, 20, 60>>

ramp_white(e) == IF e = "soul_eye" THEN <<180, 230, 255>> ELSE <<230, 245, 255>>

\* colored = ImageOps.colorize(gray, black=..., white=...): the two-point
\* ramp black + p*(white - black)//255 on each channel; an RGB image.
colorize(e, p) ==
    [c \in 1..3 |->
        ramp_black(e)[c] + (p * (ramp_white(e)[c] - ramp_black(e)[c])) \div 255]

\* The statements of the glow stage in the order each script runs them.
GlowProgram(e) ==
    IF e = "soul_eye"
    THEN << "threshold", "convert", "point", "blur", "composite", "blend" >>
    ELSE << "threshold", "blur", "convert", "point", "composite", "blend" >>

GlowOp == IF glow_pc \in 1..Len(GlowProgram(glow_edition))
          THEN GlowProgram(glow_edition)[glow_pc] ELSE "return"

MaskLambdaIdentity(e, p) == p

\* The lambda handed to highlights.point after the conversion to RGBA:
\* "255 if p > 0 else 0" in soul_eye, "p" in bright.
mask_lambda(e, p) == IF e = "soul_eye" THEN (IF p > 0 THEN 255 ELSE 0) ELSE p

\* image.point(function) builds one 256-entry table from the function and
\* applies it to every band of the image.
point(e, band) == [i \in DOMAIN band |-> mask_lambda(e, band[i])]

\* filter(ImageFilter.GaussianBlur(r)) on one band, as one box pass over
\* the pixel and its two neighbours with the edge pixel repeated; every
\* band of the image is filtered the same way.
GaussianBlur(band) ==
    [i \in DOMAIN band |->
        LET n == Cardinality(DOMAIN band)
            l == IF i > 1 THEN i - 1 ELSE 1
            r == IF i < n THEN i + 1 ELSE n
        IN  (2 * (band[l] + band[i] + band[r]) + 3) \div 6]

\* The band Image.composite reads from its mask argument: the image itself
\* for an 'L' mask, the alpha band for an 'RGBA' mask.
mask_band == IF DOMAIN highlights_alpha = {} THEN highlights
             ELSE highlights_alpha

\* a/255 rounded to the nearest integer, as the paste loop computes it.
DIV255(a) == (((a + 128) \div 256) + a + 128) \div 256

\* One pixel of Image.composite(image1, image2, mask):
\* image1*m/255 + image2*(255 - m)/255.
composite_pixel(image1, image2, m) ==
    [c \in 1..3 |-> DIV255(image1[c] * m + image2[c] * (255 - m))]

\* One pixel of Image.blend(im1, im2, alpha): im1 + alpha*(im2 - im1),
\* truncated to an integer.
blend_pixel(im1, im2, tenths) ==
    [c \in 1..3 |-> (10 * im1[c] + tenths * (im2[c] - im1[c])) \div 10]

InitGlow ==
    /\ glow_edition \in GlowEditions
    /\ gray \in [Row -> GlowLevels]
    /\ glow_pc = 1
    /\ highlights = <<>>
    /\ highlights_alpha = <<>>
    /\ glow_composite = <<>>
    /\ glow_out = <<>>

\* highlights = gray.point(lambda p: p if p > threshold else 0)
gray_point_threshold ==
    /\ GlowOp = "threshold"
    /\ highlights' = [i \in Row |->
                        IF gray[i] > threshold(glow_edition) THEN gray[i]
                        ELSE 0]
    /\ glow_pc' = glow_pc + 1
    /\ UNCHANGED <<glow_edition, gray, highlights_alpha, glow_composite,
                   glow_out>>
    /\ UNCHANGED not_glow

\* highlights = highlights.convert("RGBA"): R = G = B = the L value and
\* alpha = 255 in every pixel.
highlights_convert ==
    /\ GlowOp = "convert"
    /\ highlights_alpha' = [i \in Row |-> 255]
    /\ glow_pc' = glow_pc + 1
    /\ UNCHANGED <<glow_edition, gray, highlights, glow_composite, glow_out>>
    /\ UNCHANGED not_glow

\* mask = highlights.point(lambda ...), on all four bands.
highlights_point ==
    /\ GlowOp = "point"
    /\ highlights' = point(glow_edition, highlights)
    /\ highlights_alpha' = point(glow_edition, highlights_alpha)
    /\ glow_pc' = glow_pc + 1
    /\ UNCHANGED <<glow_edition, gray, glow_composite, glow_out>>
    /\ UNCHANGED not_glow

\* mask = mask.filter(ImageFilter.GaussianBlur(10)) in soul_eye,
\* highlights = highlights.filter(ImageFilter.GaussianBlur(3)) in bright.
highlights_blur ==
    /\ GlowOp = "blur"
    /\ highlights' = GaussianBlur(highlights)
    /\ highlights_alpha' = GaussianBlur(highlights_alpha)
    /\ glow_pc' = glow_pc + 1
    /\ UNCHANGED <<glow_edition, gray, glow_composite, glow_out>>
    /\ UNCHANGED not_glow

\* glow_composite = Image.composite(cyan_layer, colored, mask) in soul_eye,
\* logo_base = Image.composite(light_layer, colored, mask) in bright.
image_composite ==
    /\ GlowOp = "composite"
    /\ glow_composite' =
          [i \in Row |-> composite_pixel(tint(glow_edition),
                                         colorize(glow_edition, gray[i]),
                                         mask_band[i])]
    /\ glow_pc' = glow_pc + 1
    /\ UNCHANGED <<glow_edition, gray, highlights, highlights_alpha, glow_out>>
    /\ UNCHANGED not_glow

\* colored = Image.blend(colored, glow_composite, alpha=0.3) in soul_eye,
\* logo_base = Image.blend(colored, logo_base, alpha=0.5) in bright.
image_blend ==
    /\ GlowOp = "blend"
    /\ glow_out' =
          [i \in Row |-> blend_pixel(colorize(glow_edition, gray[i]),
                                     glow_composite[i],
                                     blend_tenths(glow_edition))]
    /\ glow_pc' = glow_pc + 1
    /\ UNCHANGED <<glow_edition, gray, highlights, highlights_alpha,
                   glow_composite>>
    /\ UNCHANGED not_glow

NextGlow ==
    \/ gray_point_threshold
    \/ highlights_convert
    \/ highlights_point
    \/ highlights_blur
    \/ image_composite
    \/ image_blend

GlowStart ==
    InitGlow /\ IdleCrop /\ IdleExport /\ IdleMask /\ IdleComp /\ IdleSearch
        /\ IdleProc

SpecGlow == GlowStart /\ [][NextGlow]_vars

GlowDone == GlowOp = "return"

\* |x|
Abs(x) == IF x < 0 THEN 0 - x ELSE x

\* C13 (as stated): when the glow stage has run, every pixel of its output
\* is base*(1 - a*m/255) + tint*(a*m/255) on each channel, to within the
\* two roundings of composite and blend, where base is the colorized pixel,
\* m the value of the blurred highlight mask at the pixel and a the blend
\* strength; a pixel with m = 0 is the colorized pixel itself.
C13_GlowBlendFormula ==
    GlowDone =>
        \A i \in Row :
            LET base == colorize(glow_edition, gray[i])
                m    == highlights[i]
                am   == blend_tenths(glow_edition) * m
            IN  /\ \A c \in 1..3 :
                      Abs(2550 * glow_out[i][c]
                            - (base[c] * (2550 - am) + tint(glow_edition)[c] * am))
                          <= 2 * 2550
                /\ (m = 0 => glow_out[i] = base)

\* C14 (as stated): when the blur is about to run, every pixel of the
\* highlight mask is 255 where the luminance is strictly greater than the
\* threshold and 0 elsewhere.
C14_HighlightMaskBinary ==
    GlowOp = "blur" =>
        \A i \in Row :
            highlights[i] = IF gray[i] > threshold(glow_edition) THEN 255 ELSE 0

\* C14 (amended): when the blur is about to run, the mask of
\* generate_soul_eye_logo.py is binary in its colour bands, 255 where the
\* luminance is strictly greater than the threshold and 0 elsewhere, with
\* an alpha band of 255 in every pixel; the mask of
\* generate_soul_bright_fixed_crop.py holds the luminance itself where it
\* is strictly greater than the threshold and 0 elsewhere.
C14_MaskBeforeBlurPerEdition ==
    GlowOp = "blur" =>
        \A i \in Row :
            IF glow_edition = "soul_eye"
            THEN /\ highlights[i] =
                        IF gray[i] > threshold(glow_edition) THEN 255 ELSE 0
                 /\ highlights_alpha[i] = 255
            ELSE /\ highlights[i] =
                        IF gray[i] > threshold(glow_edition) THEN gray[i] ELSE 0
                 /\ DOMAIN highlights_alpha = {}

\* C14 witness: generate_soul_eye_logo.py is about to blur a mask that is
\* 0 at a pixel of luminance 200 and 255 at a pixel of luminance 201.
C14_Witness ==
    /\ GlowOp = "blur"
    /\ glow_edition = "soul_eye"
    /\ gray[1] = 200
    /\ highlights[1] = 0
    /\ gray[2] = 201
    /\ highlights[2] = 255

(***************************************************************************)
(*        TONE MAPPER AND COMPOSITION: THE STATEMENTS OF process_*         *)
(***************************************************************************)

ProcessEditions == {"clean", "bright", "soul_eye", "soul", "variant"}

\* The size argument: 1024 by default in process_*, 512 in generate_variant.
WorkingSizes == {256, 512, 1024}

\* A statement: op is what it calls, dst the name it assigns or the draw
\* handle it draws with, src the name it reads, what the thing painted and w
\* the stroke width in thousandths of size (0 for a filled shape).
St(op, dst, src, what, w) ==
    [op |-> op, dst |-> dst, src |-> src, what |-> what, w |-> w]

\* img = ImageEnhance.<kind>(img).enhance(f), or the same on gray.
Enhance(kind) == St(kind, "", "", "", 0)

\* name = Image.new(...)
New(name) == St("new", name, "", "", 0)

\* handle = ImageDraw.Draw(name)
Draw(handle, name) == St("Draw", handle, name, "", 0)

\* handle.ellipse(bbox, fill=...) or handle.ellipse(bbox, outline=..., width=int(size*w/1000))
Ellipse(handle, what, w) == St("ellipse", handle, "", what, w)

\* handle.arc(bbox, ..., width=...)
Arc(handle, what, w) == St("arc", handle, "", what, w)

\* dst = src.filter(ImageFilter.GaussianBlur(r))
Filter(dst, src) == St("filter", dst, src, "", 0)

\* logo = Image.alpha_composite(logo, layer)
AlphaComposite(layer) == St("alpha_composite", "logo", layer, "", 0)

\* logo.paste(colored, ..., mask)
Paste(mask) == St("paste", "logo", mask, "subject", 0)

Return == St("return", "", "", "", 0)

CleanLogoSharpRimFirst ==
    << Enhance("Brightness"), Enhance("Sharpness"), Enhance("convert_L"),
       Enhance("colorize"),
       New("logo"), New("mask"), Draw("draw", "mask"),
       Ellipse("draw", "circle", 0), Filter("mask_soft", "mask"),
       Paste("mask_soft"),
       New("rim_layer"), Draw("rim_draw", "rim_layer"),
       Ellipse("rim_draw", "rim", 20), Filter("rim_glow", "rim_layer"),
       AlphaComposite("rim_layer"), AlphaComposite("rim_glow"),
       Return >>

\* generate_clean_logo.py, process_clean_logo from line 26.
process_clean_logo ==
    << Enhance("Brightness"), Enhance("Sharpness"), Enhance("convert_L"),
       Enhance("colorize"),
       New("logo"), New("mask"), Draw("draw", "mask"),
       Ellipse("draw", "circle", 0), Filter("mask_soft", "mask"),
       Paste("mask_soft"),
       New("rim_layer"), Draw("rim_draw", "rim_layer"),
       Ellipse("rim_draw", "rim", 20), Filter("rim_glow", "rim_layer"),
       AlphaComposite("rim_glow"), AlphaComposite("rim_layer"),
       Return >>

\* generate_soul_bright_fixed_crop.py, process_soul_bright_image from line 39.
process_soul_bright_image ==
    << Enhance("Brightness"), Enhance("Contrast"), Enhance("convert_L"),
       Enhance("colorize"), Enhance("glow"),
       New("logo"), Draw("bg_draw", "logo"),
       Ellipse("bg_draw", "background", 0),
       New("mask"), Draw("draw", "mask"), Ellipse("draw", "circle", 0),
       Paste("mask"),
       New("rim_layer"), Draw("rim_draw", "rim_layer"),
       Ellipse("rim_draw", "rim", 40), Filter("rim_layer", "rim_layer"),
       New("rim_sharp"), Draw("rim_sharp_draw", "rim_sharp"),
       Ellipse("rim_sharp_draw", "rim", 15),
       AlphaComposite("rim_layer"), AlphaComposite("rim_sharp"),
       Return >>

SoulEyeLuminanceFirst ==
    << Enhance("convert_L"), Enhance("Contrast"), Enhance("Sharpness"),
       Enhance("colorize"), Enhance("glow"),
       New("logo"), New("mask"), Draw("draw", "mask"),
       Ellipse("draw", "circle", 0), Filter("mask", "mask"),
       Paste("mask"),
       New("ring_layer"), Draw("ring_draw", "ring_layer"),
       Ellipse("ring_draw", "ring", 20), Filter("ring_layer", "ring_layer"),
       AlphaComposite("ring_layer"),
       Return >>

\* generate_soul_eye_logo.py, process_soul_eye_image from line 40.
process_soul_eye_image ==
    << Enhance("Sharpness"), Enhance("convert_L"), Enhance("Contrast"),
       Enhance("colorize"), Enhance("glow"),
       New("logo"), New("mask"), Draw("draw", "mask"),
       Ellipse("draw", "circle", 0), Filter("mask", "mask"),
       Paste("mask"),
       New("ring_layer"), Draw("ring_draw", "ring_layer"),
       Ellipse("ring_draw", "ring", 20), Filter("ring_layer", "ring_layer"),
       AlphaComposite("ring_layer"),
       Return >>

\* generate_soul_logo.py, process_soul_image from line 59.
process_soul_image ==
    << Enhance("convert_L"), Enhance("GaussianBlur"), Enhance("Contrast"),
       Enhance("colorize"),
       New("logo"),
       New("halo_layer"), Draw("halo_draw", "halo_layer"),
       Ellipse("halo_draw", "halo", 0), Filter("halo_layer", "halo_layer"),
       AlphaComposite("halo_layer"),
       New("mask"), Draw("mask_draw", "mask"),
       Ellipse("mask_draw", "circle", 0), Filter("mask", "mask"),
       Paste("mask"),
       Draw("draw", "logo"),
       New("ring_layer"), Draw("ring_draw", "ring_layer"),
       Ellipse("ring_draw", "orbit_ring", 10),
       Filter("ring_layer", "ring_layer"),
       AlphaComposite("ring_layer"),
       Ellipse("ring_draw", "second_ring", 5),
       Return >>

\* generate_variants.py, generate_variant from line 47; the mask is the
\* alpha band of colored itself (putalpha), so paste names no mask image.
generate_variant_statements ==
    << Enhance("convert_L"), Enhance("Contrast"), Enhance("colorize"),
       Enhance("apply_scanlines"), Enhance("putalpha"),
       New("logo"),
       New("glow_layer"), Draw("glow_draw", "glow_layer"),
       Ellipse("glow_draw", "glow", 0), Filter("glow_layer", "glow_layer"),
       AlphaComposite("glow_layer"),
       Paste(""),
       Draw("draw", "logo"), Ellipse("draw", "rim", 30),
       Arc("draw", "arc", 15), Arc("draw", "arc", 15),
       Return >>

Program(e) ==
    IF e = "clean" THEN process_clean_logo
    ELSE IF e = "bright" THEN process_soul_bright_image
    ELSE IF e = "soul_eye" THEN process_soul_eye_image
    ELSE IF e = "soul" THEN process_soul_image
    ELSE generate_variant_statements

\* The statement about to run.
Stmt == Program(proc_edition)[proc_pc]

Running == proc_pc \in 1..Len(Program(proc_edition))

\* The passes of ImageEnhance.
EnhancePasses == {"Brightness", "Contrast", "Sharpness"}

\* What a drawing call leaves on an image: the shape, its stroke width
\* int(size * w/1000) and whether a blur has gone over it since.
Element(what, w) ==
    [what |-> what, width |-> int_scaled(proc_size, w, 1000), blurred |-> FALSE]

\* GaussianBlur softens everything painted on the image so far.
Blurred(painted) ==
    [i \in 1..Len(painted) |-> [painted[i] EXCEPT !.blurred = TRUE]]

InitProcess ==
    /\ proc_edition \in ProcessEditions
    /\ proc_size \in WorkingSizes
    /\ proc_pc = 1
    /\ tone = <<>>
    /\ img_mode = "RGBA"
    /\ bind = [n \in Names |-> 0]
    /\ content = <<>>

\* A statement that touches neither bind nor content.
ToneStep(mode) ==
    /\ tone' = Append(tone, Stmt.op)
    /\ img_mode' = mode
    /\ proc_pc' = proc_pc + 1
    /\ UNCHANGED <<proc_edition, proc_size, bind, content>>
    /\ UNCHANGED not_proc

\* A statement that leaves the tone stage alone.
ComposeStep(new_bind, new_content) ==
    /\ bind' = new_bind
    /\ content' = new_content
    /\ proc_pc' = proc_pc + 1
    /\ UNCHANGED <<proc_edition, proc_size, tone, img_mode>>
    /\ UNCHANGED not_proc

\* ImageEnhance.Brightness / Contrast / Sharpness(...).enhance(f): the mode
\* of the image stays what it is.
enhance ==
    /\ Running
    /\ Stmt.op \in EnhancePasses
    /\ ToneStep(img_mode)

\* gray = img.convert("L")
convert_L ==
    /\ Running
    /\ Stmt.op = "convert_L"
    /\ ToneStep("L")

\* gray = gray.filter(ImageFilter.GaussianBlur(1)), soul only.
gray_filter ==
    /\ Running
    /\ Stmt.op = "GaussianBlur"
    /\ ToneStep(img_mode)

\* colored = ImageOps.colorize(gray, black=..., white=...): an RGB image.
colorize_gray ==
    /\ Running
    /\ Stmt.op = "colorize"
    /\ ToneStep("RGB")

\* The eye-glow statements (SpecGlow follows them pixel by pixel).
glow_stage ==
    /\ Running
    /\ Stmt.op = "glow"
    /\ ToneStep(img_mode)

\* colored = apply_scanlines(colored, ...) and colored.putalpha(mask):
\* colored becomes RGBA.
variant_overlay ==
    /\ Running
    /\ Stmt.op \in {"apply_scanlines", "putalpha"}
    /\ ToneStep("RGBA")

\* name = Image.new(mode, (size, size), 0): a fresh, empty image.
image_new ==
    /\ Running
    /\ Stmt.op = "new"
    /\ ComposeStep([bind EXCEPT ![Stmt.dst] = Len(content) + 1],
                   Append(content, <<>>))

\* handle = ImageDraw.Draw(name): the handle keeps the image name is bound
\* to now, whatever name is bound to later.
image_draw ==
    /\ Running
    /\ Stmt.op = "Draw"
    /\ ComposeStep([bind EXCEPT ![Stmt.dst] = bind[Stmt.src]], content)

\* handle.ellipse(...) / handle.arc(...): paints in place on the handle's
\* image.
draw_shape ==
    /\ Running
    /\ Stmt.op \in {"ellipse", "arc"}
    /\ ComposeStep(bind,
                   [content EXCEPT ![bind[Stmt.dst]] =
                        Append(@, Element(Stmt.what, Stmt.w))])

\* dst = src.filter(ImageFilter.GaussianBlur(r)): filter returns a new
\* image and leaves src's image as it was.
image_filter ==
    /\ Running
    /\ Stmt.op = "filter"
    /\ ComposeStep([bind EXCEPT ![Stmt.dst] = Len(content) + 1],
                   Append(content, Blurred(content[bind[Stmt.src]])))

\* logo.paste(colored, offset, mask): paints the subject on logo in place.
paste ==
    /\ Running
    /\ Stmt.op = "paste"
    /\ ComposeStep(bind,
                   [content EXCEPT ![bind["logo"]] =
                        Append(@, Element(Stmt.what, Stmt.w))])

\* logo = Image.alpha_composite(logo, layer): a new image holding logo
\* with the layer, as it is at this moment, over it.
alpha_composite_layer ==
    /\ Running
    /\ Stmt.op = "alpha_composite"
    /\ ComposeStep([bind EXCEPT !["logo"] = Len(content) + 1],
                   Append(content,
                          content[bind["logo"]] \o content[bind[Stmt.src]]))

\* return logo (generate_variant saves it instead).
process_return ==
    /\ Running
    /\ Stmt.op = "return"
    /\ proc_pc' = proc_pc + 1
    /\ UNCHANGED <<proc_edition, proc_size, tone, img_mode, bind, content>>
    /\ UNCHANGED not_proc

NextProcess ==
    \/ enhance
    \/ convert_L
    \/ gray_filter
    \/ colorize_gray
    \/ glow_stage
    \/ variant_overlay
    \/ image_new
    \/ image_draw
    \/ draw_shape
    \/ image_filter
    \/ paste
    \/ alpha_composite_layer
    \/ process_return

ProcessStart ==
    InitProcess /\ IdleCrop /\ IdleExport /\ IdleMask /\ IdleComp
        /\ IdleSearch /\ IdleGlow

SpecProcess == ProcessStart /\ [][NextProcess]_vars

\* The function has returned its logo.
Returned == proc_pc = Len(Program(proc_edition)) + 1

\* What is on the canvas logo is bound to, bottom first.
Canvas == IF bind["logo"] = 0 THEN <<>> ELSE content[bind["logo"]]

\* The places on the canvas, bottom first, where a shape sits.
Places(what, blurred) ==
    { i \in 1..Len(Canvas) :
        Canvas[i].what = what /\ Canvas[i].blurred = blurred }

\* The editions that draw the rim once blurred and once sharp.
RimTwiceEditions == {"clean", "bright"}

\* C15: in the editions that render the rim twice, a sharp rim is on the
\* canvas only above a blurred rim and a blurred rim only above the masked
\* subject, and the returned canvas holds all three: subject, then blurred
\* rim, then sharp rim on top.
C15_BlurredRimUnderSharpRim ==
    proc_edition \in RimTwiceEditions =>
        /\ \A k \in Places("rim", FALSE) :
              \E j \in Places("rim", TRUE) : j < k
        /\ \A j \in Places("rim", TRUE) :
              \E i \in Places("subject", FALSE) : i < j
        /\ (Returned =>
                /\ Places("subject", FALSE) # {}
                /\ Places("rim", TRUE) # {}
                /\ Places("rim", FALSE) = {Len(Canvas)})

\* C15 witness: process_soul_bright_image has returned a canvas of
\* background, subject, blurred rim and sharp rim, in that order.
C15_Witness ==
    /\ Returned
    /\ proc_edition = "bright"
    /\ Len(Canvas) = 4
    /\ Canvas[2].what = "subject"
    /\ Canvas[3].what = "rim" /\ Canvas[3].blurred
    /\ Canvas[4].what = "rim" /\ ~Canvas[4].blurred

\* The places in tone of the statements of a kind.
ToneAt(ops) == { i \in 1..Len(tone) : tone[i] \in ops }

IsEnhancePass(op) == op \in EnhancePasses

\* tone up to, and tone from, the luminance reduction.
BeforeLuminance ==
    IF ToneAt({"convert_L"}) = {} THEN tone
    ELSE SubSeq(tone, 1, (CHOOSE i \in ToneAt({"convert_L"}) : TRUE) - 1)

AfterLuminance ==
    IF ToneAt({"convert_L"}) = {} THEN <<>>
    ELSE SubSeq(tone, (CHOOSE i \in ToneAt({"convert_L"}) : TRUE) + 1,
                Len(tone))

C20_BothRingsReachCanvas ==
    (Returned /\ proc_edition = "soul") =>
        /\ \E i \in 1..Len(Canvas) : Canvas[i].what = "orbit_ring"
        /\ \E i \in 1..Len(Canvas) : Canvas[i].what = "second_ring"

=============================================================================
